---- MODULE Spec2Model ----
(***************************************************************************)
(* The water-level extraction workflow of the water monitor notebook:      *)
(* NDWI, VALID_DATA mask, COVERAGE, the coverage filter and the Otsu water *)
(* detector, as tasks acting on one EOPatch; and the OsmInputTask of the   *)
(* data sources notebook.                                                  *)
(*                                                                         *)
(* Numbers.  NDWI values are fixed-point numbers in units of 1/2 (the      *)
(* integer k stands for k/2), np.nan is the marker NaN.  A threshold of    *)
(* the water detector is kept multiplied by 2*NBins, so that a bin centre  *)
(* of the 256-bin histogram is an integer.  Coverage thresholds are exact  *)
(* fractions <<num, den>>.                                                 *)
(***************************************************************************)
EXTENDS Integers, Sequences, FiniteSets, TLC

VARIABLES
    pc,             \* the task of the workflow that runs next
    features,       \* names of the features the EOPatch holds
    timestamp,      \* eopatch.timestamp: one entry per frame
    bands,          \* eopatch.data['BANDS']: per pixel the pair <<B03, B08>>
    is_data,        \* eopatch.mask['IS_DATA']: a stack of grids
    clm,            \* eopatch.mask['CLM']
    valid_data,     \* eopatch.mask['VALID_DATA']
    coverage,       \* eopatch.scalar['COVERAGE']: <<num, den>> per frame
    ndwi,           \* eopatch.data['NDWI']
    nominal_water,  \* eopatch.mask_timeless['NOMINAL_WATER']: one grid
    water_mask,     \* eopatch.mask['WATER_MASK']
    water_level,    \* eopatch.scalar['WATER_LEVEL']: <<num, den>> per entry
    threshold,      \* ValidDataCoveragePredicate.threshold: <<num, den>>
    otsu_thr,       \* detect_water's local otsu_thr of each frame, times 2*NBins
    raw_masks,      \* execute's local water_masks before the nominal masking
    err,            \* the exception that ended the run, "" if none
    bbox,           \* OsmInputTask: whether eopatch.bbox is set
    polygonize,     \* OsmInputTask.polygonize
    overpass,       \* the features the Overpass endpoint answers the query with
    requests,       \* the number of requests made to the Overpass endpoint
    osm_feature     \* eopatch[self.feature]: the geometries stored, <<>> if none

osm_vars == <<bbox, polygonize, overpass, requests, osm_feature>>

workflow_vars == <<timestamp, bands, is_data, clm, valid_data, coverage, ndwi,
                   nominal_water, water_mask, water_level, threshold, otsu_thr,
                   raw_masks>>

vars == <<pc, features, timestamp, bands, is_data, clm, valid_data, coverage, ndwi,
          nominal_water, water_mask, water_level, threshold, otsu_thr,
          raw_masks, err, bbox, polygonize, overpass, requests, osm_feature>>

(***************************************************************************)
(* Bounds of the model.                                                    *)
(***************************************************************************)
MaxFrames == 2

MaxFeatures == 2

(***************************************************************************)
(* Program constants.                                                      *)
(***************************************************************************)
NaN == 99            \* np.nan (a marker outside every value set)
NanFill == -2        \* ndwi[np.isnan(ndwi)] = -1
DefaultThr == 2      \* otsu_thr = 1.0
NBins == 256         \* threshold_otsu(ndwi): nbins defaults to 256

(***************************************************************************)
(* Grids: a grid of shape <<h, w>> is a function on (1..h) \X (1..w).      *)
(***************************************************************************)
Cells(shape) == (1..shape[1]) \X (1..shape[2])

\* The function f itself, tabulated once (TLC otherwise evaluates the
\* definition of f again at every application).
Tab(f) == f @@ <<>>

GridsOf(shape, values) == [Cells(shape) -> values]

SetMin(S) == CHOOSE x \in S : \A y \in S : x <= y

SetMax(S) == CHOOSE x \in S : \A y \in S : x >= y

\* np.count_nonzero(array)
CountNonzero(g) == Cardinality({p \in DOMAIN g : g[p] # 0})

\* np.size(array)
Size(g) == Cardinality(DOMAIN g)

(***************************************************************************)
(* skimage.filters.threshold_otsu on a grid without NaN.                   *)
(***************************************************************************)
\* np.histogram(image, bins=NBins, range=(lo, hi)): the bin a value falls in;
\* the last bin is closed on the right.
BinOf(v, lo, hi) ==
    IF v = hi THEN NBins - 1 ELSE ((v - lo) * NBins) \div (hi - lo)

\* variance12[i] = weight1[i] * weight2[i+1] * (mean1[i] - mean2[i+1])^2 as the
\* fraction <<numerator, denominator>>.  weight1[i] and mean1[i] are the count
\* and the mean bin centre of the pixels in bins 0..i, weight2[i+1] and
\* mean2[i+1] those of the pixels in bins i+1..NBins-1.  Bin centres are taken
\* in units of half a bin width from the lowest edge (centre of bin k = 2k+1):
\* the variance depends on differences of centres only.
Variance12(bins, i) ==
    LET lower == {p \in DOMAIN bins : bins[p] <= i}
        upper == DOMAIN bins \ lower
        RECURSIVE Sum(_)
        Sum(ps) == IF ps = {} THEN 0
                   ELSE LET p == CHOOSE q \in ps : TRUE
                        IN  2 * bins[p] + 1 + Sum(ps \ {p})
        w1 == Cardinality(lower)
        w2 == Cardinality(upper)
        d  == Sum(lower) * w2 - Sum(upper) * w1
    IN  <<d * d, w1 * w2>>

\* np.argmax(variance12[a..b]) as <<index, variance>>: the first index holding
\* the maximum.
RECURSIVE ArgMax(_, _, _)
ArgMax(bins, a, b) ==
    IF a = b THEN <<a, Variance12(bins, a)>>
    ELSE LET m == (a + b) \div 2
             l == ArgMax(bins, a, m)
             r == ArgMax(bins, m + 1, b)
         IN  IF r[2][1] * l[2][2] > l[2][1] * r[2][2] THEN r ELSE l

\* The threshold of a grid with at least two values: bin_centers[idx] with
\* idx = np.argmax(variance12), times 2*NBins.
OtsuOfRange(g) ==
    LET vals == {g[p] : p \in DOMAIN g}
        lo   == SetMin(vals)
        hi   == SetMax(vals)
        bins == [p \in DOMAIN g |-> BinOf(g[p], lo, hi)]
        idx  == ArgMax(bins, 0, NBins - 2)[1]
    IN  2 * NBins * lo + (2 * idx + 1) * (hi - lo)

(***************************************************************************)
(* The inputs the model draws from.                                        *)
(***************************************************************************)
\* Spatial shapes <<height, width>> of the frames of a patch.
FrameShapes == {<<1, 1>>, <<1, 2>>}

\* Spatial shapes of the frames handed to the water detector alone: those of
\* FrameShapes and, for stacks of one frame, a wider one.
WideShapes == {<<1, 3>>}

\* Shapes of a NOMINAL_WATER grid handed to the water detector.
NominalShapes == {<<1, 1>>, <<1, 2>>, <<2, 1>>, <<1, 3>>}

\* NDWI values: nan, -1.0, 0.5, 1.0.
NdwiValues == {NaN, -2, 1, 2}

\* Reflectances <<B03, B08>> of a pixel; their NDWI is nan, 1, -1, -0.5, 0.5, 0.
BandPairs == {<<0, 0>>, <<1, 0>>, <<0, 1>>, <<1, 3>>, <<3, 1>>, <<1, 1>>}

\* Coverage thresholds: 0, 0.05 (the workflow's), 0.5, 1 and 1.5.  With the
\* pixel counts of FrameShapes, 1.0 - count/size and these thresholds compare
\* in binary floating point as the exact fractions do.
cloud_coverage_threshold == <<1, 20>>

Thresholds == {<<0, 1>>, cloud_coverage_threshold, <<1, 2>>, <<1, 1>>, <<3, 2>>}

\* Stacks of at most MaxFrames frames drawn from a set of grids.
StacksOf(grids) == UNION {[1..t -> grids] : t \in 0..MaxFrames}

\* A stack of t copies of one grid.
Repeat(g, t) == [i \in 1..t |-> g]

\* The shape of a grid, of a stack's frames.
ShapeOf(g) ==
    IF DOMAIN g = {} THEN <<0, 0>>
    ELSE <<SetMax({p[1] : p \in DOMAIN g}), SetMax({p[2] : p \in DOMAIN g})>>

(***************************************************************************)
(* Fractions <<num, den>> with den > 0.                                    *)
(***************************************************************************)
FracLess(a, b) == a[1] * b[2] < b[1] * a[2]

FracEq(a, b) == a[1] * b[2] = b[1] * a[2]

(***************************************************************************)
(* NDWI.                                                                   *)
(***************************************************************************)
\* Mutant of the index: the difference of the bands, not normalised.
NormalizedDifferenceUnscaled(a, b) == IF a + b = 0 THEN NaN ELSE 2 * (a - b)

\* NormalizedDifferenceIndexTask on one pixel: (a - b) / (a + b) in units of
\* 1/2, and nan where the float division 0 / 0 leaves it (numpy warns, it does
\* not raise).  The band values of BandPairs make the quotient a multiple of
\* 1/2.
NormalizedDifference(a, b) ==
    IF a + b = 0 THEN NaN ELSE (2 * (a - b)) \div (a + b)

\* The NDWI frame of a BANDS frame
NdwiOf(frame) ==
    Tab([p \in DOMAIN frame |-> NormalizedDifference(frame[p][1], frame[p][2])])

(***************************************************************************)
(* VALID_DATA, COVERAGE and the coverage filter.                           *)
(***************************************************************************)
\* array.astype(np.bool)
AsBool(x) == x # 0

\* Mutant of calculate_valid_data_mask: the cloud mask is not negated.
CalculateValidDataMaskCloudy(isd, cl) ==
    Tab([p \in DOMAIN isd |-> IF AsBool(isd[p]) /\ AsBool(cl[p]) THEN 1 ELSE 0])

\* calculate_valid_data_mask on one frame: is_data & ~clm
CalculateValidDataMask(isd, cl) ==
    Tab([p \in DOMAIN isd |-> IF AsBool(isd[p]) /\ ~AsBool(cl[p]) THEN 1 ELSE 0])

\* Mutant of calculate_coverage: the fraction of valid pixels, without "1.0 -".
CalculateCoverageValid(array) == <<CountNonzero(array), Size(array)>>

\* calculate_coverage: 1.0 - np.count_nonzero(array) / np.size(array)
CalculateCoverage(array) == <<Size(array) - CountNonzero(array), Size(array)>>

\* Mutant of ValidDataCoveragePredicate.__call__: <= in place of <.
ValidDataCoveragePredicateLeq(thr, array) ==
    ~FracLess(thr, CalculateCoverage(array))

\* ValidDataCoveragePredicate.__call__
ValidDataCoveragePredicate(thr, array) == FracLess(CalculateCoverage(array), thr)

\* Mutant of SimpleFilterTask's selection: the first frame is never selected.
GoodIdxsAfterFirst(stack, thr) ==
    SelectSeq([i \in 1..Len(stack) |-> i],
              LAMBDA i : i > 1 /\ ValidDataCoveragePredicate(thr, stack[i]))

\* SimpleFilterTask: the indices of the frames the predicate accepts, ascending
GoodIdxs(stack, thr) ==
    SelectSeq([i \in 1..Len(stack) |-> i],
              LAMBDA i : ValidDataCoveragePredicate(thr, stack[i]))

\* SimpleFilterTask: a temporal feature reduced to the accepted frames
Take(feature, idxs) == Tab([k \in 1..Len(idxs) |-> feature[idxs[k]]])

(***************************************************************************)
(* WaterDetectionTask.detect_water.                                        *)
(*                                                                         *)
(* Two library behaviours depend on the installed versions and are inputs  *)
(* of the operators below:                                                 *)
(*   uniq  "collapsed": np.unique returns one nan for all the nan pixels,  *)
(*         "distinct":  np.unique returns every nan pixel (nan # nan);     *)
(*   onef  "value": threshold_otsu of a one-valued image returns the value,*)
(*         "raise": it raises ValueError.                                  *)
(***************************************************************************)
UniqueModes == {"collapsed", "distinct"}

OneColourModes == {"value", "raise"}

\* len(np.unique(ndwi))
LenUnique(g, uniq) ==
    LET nans == {p \in DOMAIN g : g[p] = NaN}
    IN  Cardinality({g[p] : p \in DOMAIN g} \ {NaN})
        + (IF uniq = "collapsed" THEN (IF nans = {} THEN 0 ELSE 1)
                                 ELSE Cardinality(nans))

\* Mutant of the nan replacement: nan becomes 1.0, the top of the NDWI range.
FillNanHigh(g) == Tab([p \in DOMAIN g |-> IF g[p] = NaN THEN 2 ELSE g[p]])

\* ndwi[np.isnan(ndwi)] = -1
FillNan(g) == Tab([p \in DOMAIN g |-> IF g[p] = NaN THEN NanFill ELSE g[p]])

\* The images threshold_otsu can be given, and its thresholds on those with
\* more than one value, tabulated once.
OtsuImages ==
    UNION {GridsOf(sh, (NdwiValues \ {NaN}) \cup {NanFill}) :
              sh \in FrameShapes \cup WideShapes}

OtsuTable ==
    Tab([g \in {x \in OtsuImages : Cardinality({x[p] : p \in DOMAIN x}) > 1}
            |-> OtsuOfRange(g)])

\* threshold_otsu(image): whether it raised ValueError, and else the threshold
\* times 2*NBins.
ThresholdOtsu(g, onef) ==
    IF Cardinality({g[p] : p \in DOMAIN g}) > 1
    THEN [raised |-> FALSE, thr |-> OtsuTable[g]]
    ELSE IF onef = "raise" THEN [raised |-> TRUE, thr |-> 0]
    ELSE [raised |-> FALSE, thr |-> 2 * NBins * g[CHOOSE p \in DOMAIN g : TRUE]]

\* Mutant of the comparison: >= in place of >.
AboveOrEqual(v, thr) == IF v # NaN /\ 2 * NBins * v >= thr THEN 1 ELSE 0

\* ndwi > otsu_thr on one pixel (a comparison with nan is False)
Above(v, thr) == IF v # NaN /\ 2 * NBins * v > thr THEN 1 ELSE 0

\* detect_water(ndwi): the frame as the call leaves it (grid), the local
\* otsu_thr (thr), the returned mask, and whether threshold_otsu raised.
DetectWater(g, uniq, onef) ==
    LET many == LenUnique(g, uniq) > 1
        grid == IF many THEN FillNan(g) ELSE g
        otsu == IF many THEN ThresholdOtsu(grid, onef)
                ELSE [raised |-> FALSE, thr |-> 2 * NBins * DefaultThr]
    IN  [grid   |-> grid,
         raised |-> otsu.raised,
         thr    |-> otsu.thr,
         mask   |-> Tab([p \in DOMAIN g |->
                        IF otsu.raised THEN 0 ELSE Above(grid[p], otsu.thr)])]

(***************************************************************************)
(* WaterDetectionTask.execute.                                             *)
(***************************************************************************)
\* numpy broadcasting: two shapes aligned on the right
PadShape(sh, n) ==
    [i \in 1..n |-> IF i <= n - Len(sh) THEN 1 ELSE sh[i - (n - Len(sh))]]

Broadcastable(a, b) ==
    LET n  == IF Len(a) > Len(b) THEN Len(a) ELSE Len(b)
        pa == PadShape(a, n)
        pb == PadShape(b, n)
    IN  \A i \in 1..n : pa[i] = pb[i] \/ pa[i] = 1 \/ pb[i] = 1

BroadcastShape(a, b) ==
    LET n  == IF Len(a) > Len(b) THEN Len(a) ELSE Len(b)
        pa == PadShape(a, n)
        pb == PadShape(b, n)
    IN  [i \in 1..n |-> IF pa[i] = 1 THEN pb[i] ELSE pa[i]]

\* The cell of a grid of shape sh that cell p of the broadcast result reads
Source(p, sh) ==
    <<IF sh[1] = 1 THEN 1 ELSE p[1], IF sh[2] = 1 THEN 1 ELSE p[2]>>

\* The shape of np.asarray([detect_water(..) for ndwi in stack])[..., np.newaxis]:
\* (t, h, w, 1), and (0, 1) for an empty stack
MasksShape(stack) ==
    IF Len(stack) = 0 THEN <<0, 1>>
    ELSE <<Len(stack)>> \o ShapeOf(stack[1]) \o <<1>>

\* Mutant of the product with the nominal extent: the masks are broadcast but
\* not masked.
ProductUnmasked(raw, nominal) ==
    LET res == BroadcastShape(MasksShape(raw), ShapeOf(nominal) \o <<1>>)
    IN  IF Len(raw) = 0 THEN Tab([i \in 1..res[1] |-> <<>>])
        ELSE Tab([i \in 1..Len(raw) |->
                Tab([p \in Cells(<<res[2], res[3]>>) |->
                    raw[i][Source(p, ShapeOf(raw[i]))]])])

\* water_masks[..., np.newaxis] * nominal: the entries along the first axis.
\* An empty stack broadcast against a nominal grid (h', 1, 1) gives h' entries
\* without any pixel.
Product(raw, nominal) ==
    LET res == BroadcastShape(MasksShape(raw), ShapeOf(nominal) \o <<1>>)
    IN  IF Len(raw) = 0 THEN Tab([i \in 1..res[1] |-> <<>>])
        ELSE Tab([i \in 1..Len(raw) |->
                Tab([p \in Cells(<<res[2], res[3]>>) |->
                    raw[i][Source(p, ShapeOf(raw[i]))]
                    * nominal[Source(p, ShapeOf(nominal))]])])

\* Mutant of the division: it yields nan or inf instead of raising, as a
\* division of numpy scalars would.
DivisionNeverRaises(masks, area) == FALSE

\* np.count_nonzero(mask) / np.count_nonzero(nominal), a division of Python
\* ints evaluated once per entry of water_masks, raises ZeroDivisionError
DivisionRaises(masks, area) == Len(masks) > 0 /\ area = 0

\* eopatch[FeatureType.MASK, name] = array: EOPatch takes an array of the four
\* dimensions (time, height, width, channels) and raises ValueError otherwise
MaskAccepted(shape) == Len(shape) = 4

\* execute(eopatch): what the run leaves behind.
Execute(stack, nominal, uniq, onef) ==
    LET det    == Tab([i \in 1..Len(stack) |-> DetectWater(stack[i], uniq, onef)])
        bad    == {i \in 1..Len(stack) : det[i].raised}
        stop   == IF bad = {} THEN Len(stack) ELSE SetMin(bad)
        after  == Tab([i \in 1..Len(stack) |->
                     IF i <= stop THEN det[i].grid ELSE stack[i]])
        raw    == Tab([i \in 1..Len(stack) |-> det[i].mask])
        thrs   == Tab([i \in 1..Len(stack) |-> det[i].thr])
        fits   == Broadcastable(MasksShape(stack), ShapeOf(nominal) \o <<1>>)
        masks  == Product(raw, nominal)
        area   == CountNonzero(nominal)
        shape  == BroadcastShape(MasksShape(stack), ShapeOf(nominal) \o <<1>>)
        failed == [ndwi |-> after,
                   thr |-> IF bad = {} THEN thrs ELSE SubSeq(thrs, 1, stop - 1),
                   raw |-> <<>>,
                   masks |-> <<>>, levels |-> <<>>, err |-> "ValueError"]
    IN  IF bad # {} THEN failed
        ELSE IF ~fits THEN [failed EXCEPT !.raw = raw]
        ELSE IF DivisionRaises(masks, area)
             THEN [failed EXCEPT !.raw = raw, !.err = "ZeroDivisionError"]
        ELSE IF ~MaskAccepted(shape) THEN [failed EXCEPT !.raw = raw]
        ELSE [ndwi |-> after, thr |-> thrs, raw |-> raw, masks |-> masks,
              levels |-> Tab([i \in 1..Len(masks) |->
                              <<CountNonzero(masks[i]), area>>]),
              err |-> ""]

(***************************************************************************)
(* OsmInputTask.  A geometry is a record: its kind, the number of its      *)
(* coordinates, whether it has been replaced by its convex hull and        *)
(* whether it has been clipped to the bounding box.                        *)
(***************************************************************************)
\* The geometries of the features of an Overpass answer: ways as LineString
\* of 2, 4 or 5 coordinates, and a Polygon of 4.
Geometries ==
    {[kind |-> "LineString", coords |-> 2, hull |-> FALSE, clipped |-> FALSE],
     [kind |-> "LineString", coords |-> 4, hull |-> FALSE, clipped |-> FALSE],
     [kind |-> "LineString", coords |-> 5, hull |-> FALSE, clipped |-> FALSE],
     [kind |-> "Polygon", coords |-> 4, hull |-> FALSE, clipped |-> FALSE]}

\* Polygon(shape(feat['geometry'])) raises ValueError on fewer than 3
\* coordinates
PolygonRaises(geom) == geom.coords < 3

\* Polygon(shape(feat['geometry'])): the coordinates become the shell of a
\* polygon
Polygon(geom) == [geom EXCEPT !.kind = "Polygon"]

\* geom.convex_hull
ConvexHull(geom) == [geom EXCEPT !.hull = TRUE]

\* geom.intersection(clip_shape)
Intersection(geom) == [geom EXCEPT !.clipped = TRUE]

\* The body of the loop over response['features'] for one feature
ClippedGeom(geom, hull) ==
    Intersection(IF hull THEN ConvexHull(Polygon(geom)) ELSE Polygon(geom))

\* Mutant of OsmInputTask.execute: the Overpass request is sent first and the
\* bounding box is tested only afterwards.
OsmExecuteRequestFirst ==
    /\ pc = "osm_task"
    /\ requests' = requests + 1
    /\ IF ~bbox \/ \E i \in 1..Len(overpass) : PolygonRaises(overpass[i])
       THEN /\ err' = "ValueError"
            /\ pc' = "osm_failed"
            /\ UNCHANGED <<osm_feature, features>>
       ELSE /\ osm_feature' = [i \in 1..Len(overpass) |->
                                 ClippedGeom(overpass[i], polygonize)]
            /\ features' = features \cup {"residential"}
            /\ err' = ""
            /\ pc' = "osm_done"
    /\ UNCHANGED <<bbox, polygonize, overpass>>
    /\ UNCHANGED workflow_vars

\* OsmInputTask.execute(eopatch)
OsmExecute ==
    /\ pc = "osm_task"
    /\ IF ~bbox
       THEN /\ err' = "ValueError"
            /\ pc' = "osm_failed"
            /\ UNCHANGED <<requests, osm_feature, features>>
       ELSE /\ requests' = requests + 1
            /\ IF \E i \in 1..Len(overpass) : PolygonRaises(overpass[i])
               THEN /\ err' = "ValueError"
                    /\ pc' = "osm_failed"
                    /\ UNCHANGED <<osm_feature, features>>
               ELSE /\ osm_feature' = [i \in 1..Len(overpass) |->
                                         ClippedGeom(overpass[i], polygonize)]
                    /\ features' = features \cup {"residential"}
                    /\ err' = ""
                    /\ pc' = "osm_done"
    /\ UNCHANGED <<bbox, polygonize, overpass>>
    /\ UNCHANGED workflow_vars

\* The OSM task's part of the state while the water workflow runs: the
\* notebook's osm_task (polygonize=False), not executed.
OsmIdle ==
    /\ bbox = TRUE
    /\ polygonize = FALSE
    /\ overpass = <<>>
    /\ requests = 0
    /\ osm_feature = <<>>

(***************************************************************************)
(* The tasks of the workflow, in the order LinearWorkflow runs them.       *)
(***************************************************************************)
\* calculate_ndwi = NormalizedDifferenceIndexTask((DATA, 'BANDS'),
\*                                               (DATA, 'NDWI'), (1, 3))
CalculateNdwi ==
    /\ UNCHANGED osm_vars
    /\ pc = "calculate_ndwi"
    /\ ndwi' = [i \in 1..Len(bands) |-> NdwiOf(bands[i])]
    /\ features' = features \cup {"NDWI"}
    /\ pc' = "add_valid_mask"
    /\ UNCHANGED <<timestamp, bands, is_data, clm, valid_data, coverage,
                   nominal_water, water_mask, water_level, threshold, otsu_thr,
                   raw_masks, err>>

\* add_valid_mask = AddValidDataMaskTask(predicate=calculate_valid_data_mask)
AddValidMask ==
    /\ UNCHANGED osm_vars
    /\ pc = "add_valid_mask"
    /\ valid_data' = [i \in 1..Len(is_data) |->
                        CalculateValidDataMask(is_data[i], clm[i])]
    /\ features' = features \cup {"VALID_DATA"}
    /\ pc' = "add_coverage"
    /\ UNCHANGED <<timestamp, bands, is_data, clm, coverage, ndwi, nominal_water,
                   water_mask, water_level, threshold, otsu_thr, raw_masks, err>>

\* add_coverage = AddValidDataCoverageTask()
AddCoverage ==
    /\ UNCHANGED osm_vars
    /\ pc = "add_coverage"
    /\ coverage' = [i \in 1..Len(valid_data) |-> CalculateCoverage(valid_data[i])]
    /\ features' = features \cup {"COVERAGE"}
    /\ pc' = "remove_cloudy_scenes"
    /\ UNCHANGED <<timestamp, bands, is_data, clm, valid_data, ndwi, nominal_water,
                   water_mask, water_level, threshold, otsu_thr, raw_masks, err>>

\* Mutant of remove_cloudy_scenes: only the DATA and MASK features are reduced,
\* the COVERAGE scalar and the timestamps are left as they were.
RemoveCloudyScenesMasksOnly ==
    /\ UNCHANGED osm_vars
    /\ pc = "remove_cloudy_scenes"
    /\ LET good == GoodIdxs(valid_data, threshold)
       IN  /\ bands' = Take(bands, good)
           /\ is_data' = Take(is_data, good)
           /\ clm' = Take(clm, good)
           /\ valid_data' = Take(valid_data, good)
           /\ ndwi' = Take(ndwi, good)
    /\ pc' = "water_detection"
    /\ UNCHANGED <<features, nominal_water, water_mask, water_level, threshold,
                   otsu_thr, raw_masks, err, coverage, timestamp>>

\* remove_cloudy_scenes = SimpleFilterTask((MASK, 'VALID_DATA'), predicate):
\* every temporal feature and the timestamps keep the accepted frames
RemoveCloudyScenes ==
    /\ UNCHANGED osm_vars
    /\ pc = "remove_cloudy_scenes"
    /\ LET good == GoodIdxs(valid_data, threshold)
       IN  /\ bands' = Take(bands, good)
           /\ is_data' = Take(is_data, good)
           /\ clm' = Take(clm, good)
           /\ valid_data' = Take(valid_data, good)
           /\ coverage' = Take(coverage, good)
           /\ ndwi' = Take(ndwi, good)
           /\ timestamp' = Take(timestamp, good)
    /\ pc' = "water_detection"
    /\ UNCHANGED <<features, nominal_water, water_mask, water_level, threshold,
                   otsu_thr, raw_masks, err>>

\* water_detection = WaterDetectionTask()
WaterDetection ==
    /\ UNCHANGED osm_vars
    /\ pc = "water_detection"
    /\ \E uniq \in UniqueModes, onef \in OneColourModes :
         \E run \in {Execute(ndwi, nominal_water, uniq, onef)} :
             /\ ndwi' = run.ndwi
             /\ otsu_thr' = run.thr
             /\ raw_masks' = run.raw
             /\ err' = run.err
             /\ water_mask' = IF run.err = "" THEN run.masks ELSE water_mask
             /\ water_level' = IF run.err = "" THEN run.levels ELSE water_level
             /\ features' = IF run.err = ""
                            THEN features \cup {"WATER_MASK", "WATER_LEVEL"}
                            ELSE features
             /\ pc' = IF run.err = "" THEN "done" ELSE "failed"
    /\ UNCHANGED <<timestamp, bands, is_data, clm, valid_data, coverage,
                   nominal_water, threshold>>

(***************************************************************************)
(* Specifications.                                                         *)
(***************************************************************************)
Full(sh, v) == [p \in Cells(sh) |-> v]

\* The BANDS frame of the patches whose masks vary, and its NDWI frame: 1.0 in
\* the first column, 0.5 elsewhere.
BaseBands(sh) == [p \in Cells(sh) |-> IF p[2] = 1 THEN <<1, 0>> ELSE <<3, 1>>]

BaseNdwi(sh) == [p \in Cells(sh) |-> IF p[2] = 1 THEN 2 ELSE 1]

\* A downloaded patch of at least one frame with its nominal extent
\* (rasterised to the shape of IS_DATA), before calculate_ndwi.
Init ==
    /\ OsmIdle
    /\ pc = "calculate_ndwi"
    /\ \E sh \in FrameShapes, t \in 1..MaxFrames :
         /\ bands = Repeat(BaseBands(sh), t)
         /\ is_data \in [1..t -> GridsOf(sh, {0, 1})]
         /\ clm \in [1..t -> GridsOf(sh, {0, 1})]
         /\ ndwi = <<>>
         /\ nominal_water = Full(sh, 1)
         /\ timestamp = [i \in 1..t |-> i]
    /\ threshold \in Thresholds
    /\ features = {"BANDS", "IS_DATA", "CLM", "NOMINAL_WATER"}
    /\ valid_data = <<>>
    /\ coverage = <<>>
    /\ water_mask = <<>>
    /\ water_level = <<>>
    /\ otsu_thr = <<>>
    /\ raw_masks = <<>>
    /\ err = ""

Next ==
    \/ CalculateNdwi
    \/ AddValidMask
    \/ AddCoverage
    \/ RemoveCloudyScenes
    \/ WaterDetection

Spec == Init /\ [][Next]_vars

\* A BANDS frame with a given NDWI frame
BandsOf(g) ==
    [p \in DOMAIN g |-> CHOOSE ab \in BandPairs : NormalizedDifference(ab[1], ab[2]) = g[p]]

\* A patch of cloudless frames handed to the water detector, with any NDWI
\* stack and any nominal extent grid.
InitWater ==
    /\ OsmIdle
    /\ pc = "water_detection"
    /\ \E sh \in FrameShapes \cup WideShapes, t \in 0..MaxFrames :
         /\ sh \in WideShapes => t <= 1
         /\ ndwi \in [1..t -> GridsOf(sh, NdwiValues)]
         /\ bands = [i \in 1..t |-> BandsOf(ndwi[i])]
         /\ is_data = Repeat(Full(sh, 1), t)
         /\ clm = Repeat(Full(sh, 0), t)
         /\ valid_data = Repeat(Full(sh, 1), t)
         /\ coverage = Repeat(CalculateCoverage(Full(sh, 1)), t)
         /\ timestamp = [i \in 1..t |-> i]
    /\ \E nsh \in NominalShapes : nominal_water \in GridsOf(nsh, {0, 1})
    /\ threshold = cloud_coverage_threshold
    /\ features = {"BANDS", "IS_DATA", "CLM", "NDWI", "NOMINAL_WATER",
                   "VALID_DATA", "COVERAGE"}
    /\ water_mask = <<>>
    /\ water_level = <<>>
    /\ otsu_thr = <<>>
    /\ raw_masks = <<>>
    /\ err = ""

NextWater == WaterDetection

SpecWater == InitWater /\ [][NextWater]_vars

\* A downloaded patch with any reflectances, before calculate_ndwi.
InitNdwi ==
    /\ OsmIdle
    /\ pc = "calculate_ndwi"
    /\ \E sh \in FrameShapes, t \in 0..MaxFrames :
         /\ bands \in [1..t -> GridsOf(sh, BandPairs)]
         /\ is_data = Repeat(Full(sh, 1), t)
         /\ clm = Repeat(Full(sh, 0), t)
         /\ nominal_water = Full(sh, 1)
         /\ timestamp = [i \in 1..t |-> i]
    /\ ndwi = <<>>
    /\ threshold = cloud_coverage_threshold
    /\ features = {"BANDS", "IS_DATA", "CLM", "NOMINAL_WATER"}
    /\ valid_data = <<>>
    /\ coverage = <<>>
    /\ water_mask = <<>>
    /\ water_level = <<>>
    /\ otsu_thr = <<>>
    /\ raw_masks = <<>>
    /\ err = ""

NextNdwi == CalculateNdwi

SpecNdwi == InitNdwi /\ [][NextNdwi]_vars

\* A patch with or without a bounding box handed to an OsmInputTask, and the
\* answer the Overpass endpoint has for the query.
InitOsm ==
    /\ pc = "osm_task"
    /\ bbox \in BOOLEAN
    /\ polygonize \in BOOLEAN
    /\ overpass \in UNION {[1..n -> Geometries] : n \in 0..MaxFeatures}
    /\ requests = 0
    /\ osm_feature = <<>>
    /\ features = {}
    /\ timestamp = <<>> /\ bands = <<>> /\ is_data = <<>> /\ clm = <<>>
    /\ valid_data = <<>> /\ coverage = <<>> /\ ndwi = <<>>
    /\ nominal_water = <<>> /\ water_mask = <<>> /\ water_level = <<>>
    /\ threshold = cloud_coverage_threshold
    /\ otsu_thr = <<>> /\ raw_masks = <<>>
    /\ err = ""

NextOsm == OsmExecute

SpecOsm == InitOsm /\ [][NextOsm]_vars

(***************************************************************************)
(* Properties of the coverage filter and of the valid-data mask.           *)
(***************************************************************************)
\* A step of remove_cloudy_scenes.
FilterStep == pc = "remove_cloudy_scenes" /\ pc' = "water_detection"

\* The number of true pixels of a mask frame and its number of pixels.
CountTrue(frame) == Cardinality({p \in DOMAIN frame : frame[p] = 1})

TotalPixels(frame) == Cardinality(DOMAIN frame)

\* invalid_fraction < thr, = thr and > thr for
\* invalid_fraction = 1 - count_true / total_pixels, in integers.
InvalidBelow(frame, thr) ==
    (TotalPixels(frame) - CountTrue(frame)) * thr[2] < thr[1] * TotalPixels(frame)

InvalidEqual(frame, thr) ==
    (TotalPixels(frame) - CountTrue(frame)) * thr[2] = thr[1] * TotalPixels(frame)

InvalidAbove(frame, thr) ==
    (TotalPixels(frame) - CountTrue(frame)) * thr[2] > thr[1] * TotalPixels(frame)

\* Before the filter frame i carries timestamp i: the frames a filter step keeps.
KeptFrames == {timestamp'[k] : k \in 1..Len(timestamp')}

C2_RemovedIffAbove ==
    [][FilterStep =>
        \A i \in 1..Len(valid_data) :
            (i \notin KeptFrames) <=> InvalidAbove(valid_data[i], threshold)
    ]_vars

\* C9: every pixel of VALID_DATA is true if and only if IS_DATA is non-zero
\* and CLM is zero there.
C9_ValidIsPresenceAndNotCloud ==
    "VALID_DATA" \in features =>
        /\ Len(valid_data) = Len(is_data)
        /\ \A i \in 1..Len(valid_data) :
              /\ DOMAIN valid_data[i] = DOMAIN is_data[i]
              /\ \A p \in DOMAIN valid_data[i] :
                    /\ valid_data[i][p] \in {0, 1}
                    /\ valid_data[i][p] = 1 <=> (is_data[i][p] # 0 /\ clm[i][p] = 0)

\* C9 witness: add_valid_mask has run on a frame holding a clear pixel with data
\* and a cloudy pixel with data.
C9_Witness ==
    /\ pc = "add_coverage"
    /\ "VALID_DATA" \in features
    /\ \E i \in 1..Len(valid_data) : \E p \in DOMAIN valid_data[i] :
       \E q \in DOMAIN valid_data[i] :
          /\ is_data[i][p] = 1 /\ clm[i][p] = 0 /\ valid_data[i][p] = 1
          /\ is_data[i][q] = 1 /\ clm[i][q] = 1 /\ valid_data[i][q] = 0

\* Thresholds in [0, 1] and in (0, 1].
InUnit(thr) == 0 <= thr[1] /\ thr[1] <= thr[2]

C11_FilterIdempotent ==
    [][FilterStep =>
        \E again \in {GoodIdxs(valid_data', threshold')} :
            /\ again = [k \in 1..Len(valid_data') |-> k]
            /\ Take(valid_data', again) = valid_data'
            /\ Take(is_data', again) = is_data'
            /\ Take(clm', again) = clm'
            /\ Take(coverage', again) = coverage'
            /\ Take(ndwi', again) = ndwi'
            /\ Take(timestamp', again) = timestamp'
    ]_vars

\* C11 witness: the filter has run at the workflow's threshold 0.05 on two
\* frames, kept the first and dropped the second; applied again it keeps the
\* one frame left.
C11_Witness ==
    /\ pc = "water_detection"
    /\ threshold = cloud_coverage_threshold
    /\ timestamp = <<1>>
    /\ Len(is_data) = 1 /\ Len(coverage) = 1
    /\ GoodIdxs(valid_data, threshold) = <<1>>

\* C14 (the claim as stated): the COVERAGE scalar of every frame is the
\* fraction of valid pixels of the frame, count of true VALID_DATA pixels over
\* the number of pixels.
C14_CoverageIsValidFraction ==
    "COVERAGE" \in features =>
        /\ Len(coverage) = Len(valid_data)
        /\ \A i \in 1..Len(coverage) :
              coverage[i][1] * TotalPixels(valid_data[i])
                 = CountTrue(valid_data[i]) * coverage[i][2]

(***************************************************************************)
(* Properties of the water detector.                                       *)
(***************************************************************************)
\* A step of water_detection.
DetectionStep == pc = "water_detection" /\ pc' # pc

\* The run of the water detector is over.
Detected == pc \in {"done", "failed"}

\* The frames and the nominal extent have the same height and width.
SameShape == Len(ndwi) > 0 /\ ShapeOf(nominal_water) = ShapeOf(ndwi[1])

\* A frame with its nan replaced by the sentinel -1, its distinct values, and
\* the threshold the claim C3 describes for it (times 2*NBins).
Filled(g) == [p \in DOMAIN g |-> IF g[p] = NaN THEN NanFill ELSE g[p]]

DistinctValues(g) == {g[p] : p \in DOMAIN g}

ClaimedThreshold(g) ==
    IF Cardinality(DistinctValues(Filled(g))) > 1
    THEN OtsuTable[Filled(g)]
    ELSE 2 * NBins * DefaultThr

\* C3 (the claim as stated): nan is replaced by -1 first, the threshold is then
\* chosen from the resulting grid (Otsu if it has more than one distinct
\* value, else the default 1.0), and a pixel is water iff its value is
\* strictly above that threshold.
C3_NanFirstThenThreshold ==
    [][(DetectionStep /\ SameShape /\ pc' = "done") =>
        \A i \in 1..Len(ndwi) :
            /\ otsu_thr'[i] = ClaimedThreshold(ndwi[i])
            /\ \A p \in DOMAIN ndwi[i] :
                  raw_masks'[i][p] = 1
                     <=> 2 * NBins * Filled(ndwi[i])[p] > ClaimedThreshold(ndwi[i])
    ]_vars

\* C4: with a nominal extent of the frames' shape, the water level of every
\* frame is count(water AND nominal) / count(nominal), where water is the
\* frame's thresholded mask; with an all-true nominal extent it is
\* count(water) / number of pixels; no pixel outside the nominal extent is set
\* in WATER_MASK.
C4_LevelIsMaskedRatio ==
    (pc = "done" /\ SameShape) =>
        /\ Len(water_level) = Len(ndwi)
        /\ Len(water_mask) = Len(ndwi)
        /\ \A i \in 1..Len(ndwi) :
              LET cells   == DOMAIN nominal_water
                  nominal == {p \in cells : nominal_water[p] # 0}
                  water   == {p \in cells :
                                ndwi[i][p] # NaN /\ 2 * NBins * ndwi[i][p] > otsu_thr[i]}
              IN  /\ nominal # {}
                  /\ water_level[i][2] > 0
                  /\ water_level[i][1] * Cardinality(nominal)
                        = Cardinality(water \cap nominal) * water_level[i][2]
                  /\ nominal = cells =>
                        water_level[i][1] * Cardinality(cells)
                           = Cardinality(water) * water_level[i][2]
                  /\ DOMAIN water_mask[i] = cells
                  /\ \A p \in cells : water_mask[i][p] # 0 => p \in water \cap nominal

\* C4 witness: a finished run over two frames, the water pixel of one inside
\* the nominal extent and that of the other outside it.
C4_Witness ==
    /\ pc = "done" /\ SameShape /\ Len(ndwi) = 2
    /\ \E p \in DOMAIN nominal_water : \E q \in DOMAIN nominal_water :
          /\ raw_masks[1][p] = 1 /\ nominal_water[p] = 1 /\ water_mask[1][p] = 1
          /\ raw_masks[2][q] = 1 /\ nominal_water[q] = 0 /\ water_mask[2][q] = 0
          /\ water_level[1][1] = 1 /\ water_level[2][1] = 0

\* C5: a run of the water detector with a nominal extent without any set pixel
\* fails with an error, whatever the frame stack (an empty one included), and
\* writes neither WATER_MASK nor WATER_LEVEL.
C5_ZeroNominalFails ==
    (Detected /\ CountNonzero(nominal_water) = 0) =>
        /\ pc = "failed"
        /\ err # ""
        /\ "WATER_MASK" \notin features /\ "WATER_LEVEL" \notin features
        /\ water_mask = <<>> /\ water_level = <<>>

\* C5 witness: a run over two frames and an all-false nominal extent of their
\* shape has ended in ZeroDivisionError.
C5_Witness ==
    /\ pc = "failed" /\ SameShape /\ Len(ndwi) = 2
    /\ CountNonzero(nominal_water) = 0
    /\ err = "ZeroDivisionError"

\* C6 (the claim as stated): on an empty frame stack and a nominal extent with
\* a set pixel the water detector completes without error and yields an empty
\* WATER_MASK stack and an empty WATER_LEVEL series.
C6_EmptyStackCompletes ==
    [][(DetectionStep /\ Len(ndwi) = 0 /\ CountNonzero(nominal_water) > 0) =>
        /\ pc' = "done" /\ err' = ""
        /\ "WATER_MASK" \in features' /\ "WATER_LEVEL" \in features'
        /\ water_mask' = <<>> /\ water_level' = <<>>
    ]_vars

\* C7 (the claim as stated): the water detector never completes a run whose
\* nominal extent differs from the frames in height or width.
C7_MismatchRejected ==
    (pc = "done" /\ Len(ndwi) > 0) => ShapeOf(nominal_water) = ShapeOf(ndwi[1])

\* C8 (the claim as stated): a run of the water detector leaves the NDWI stack
\* as it found it.
C8_NdwiUnchanged ==
    [][DetectionStep => ndwi' = ndwi]_vars

\* C12: a pixel whose NDWI value is nan is never classified as water: it is
\* not set in the mask detect_water returns for its frame, nor in WATER_MASK.
C12_NanNeverWater ==
    [][DetectionStep =>
        \A i \in 1..Len(raw_masks') : \A p \in DOMAIN ndwi[i] :
            ndwi[i][p] = NaN =>
                /\ raw_masks'[i][p] = 0
                /\ (pc' = "done" /\ SameShape) => water_mask'[i][p] = 0
    ]_vars

\* C12 witness: a finished run on a frame with a pixel without signal (its
\* NDWI was nan and has been replaced by -1) that is not water, next to a
\* pixel that is.
C12_Witness ==
    /\ pc = "done" /\ SameShape
    /\ \E i \in 1..Len(ndwi) : \E p \in DOMAIN ndwi[i] : \E q \in DOMAIN ndwi[i] :
          /\ bands[i][p] = <<0, 0>> /\ ndwi[i][p] = NanFill
          /\ raw_masks[i][p] = 0 /\ water_mask[i][p] = 0
          /\ raw_masks[i][q] = 1

\* A frame holding one value, not nan, that is at most 1.0.
ConstantFrame(g) ==
    /\ Cardinality(DistinctValues(g)) = 1
    /\ \A p \in DOMAIN g : g[p] # NaN /\ g[p] <= DefaultThr

\* C13: for a frame holding a single value c <= 1.0 the detector uses the
\* default threshold 1.0 and classifies no pixel as water; the frame's water
\* level is 0.
C13_ConstantFrameNoWater ==
    [][DetectionStep =>
        \A i \in 1..Len(ndwi) :
            ConstantFrame(ndwi[i]) =>
                /\ i <= Len(otsu_thr') => otsu_thr'[i] = 2 * NBins * DefaultThr
                /\ i <= Len(raw_masks') =>
                      \A p \in DOMAIN ndwi[i] : raw_masks'[i][p] = 0
                /\ (pc' = "done" /\ SameShape) =>
                      /\ \A p \in DOMAIN water_mask'[i] : water_mask'[i][p] = 0
                      /\ water_level'[i][1] = 0 /\ water_level'[i][2] > 0
    ]_vars

\* C13 witness: a finished run whose first frame holds 1.0 in both pixels, was
\* compared with the default threshold and has level 0, next to a frame with
\* water.
C13_Witness ==
    /\ pc = "done" /\ SameShape /\ Len(ndwi) = 2
    /\ DOMAIN ndwi[1] = Cells(<<1, 2>>)
    /\ \A p \in DOMAIN ndwi[1] : ndwi[1][p] = DefaultThr /\ water_mask[1][p] = 0
    /\ otsu_thr[1] = 2 * NBins * DefaultThr
    /\ water_level[1][1] = 0
    /\ water_level[2][1] > 0

\* The runs of execute, one per library behaviour, that a step of
\* water_detection can have been.
RunsOfStep ==
    {run \in {Execute(ndwi, nominal_water, uniq, onef) :
                 uniq \in UniqueModes, onef \in OneColourModes} :
        /\ run.ndwi = ndwi' /\ run.thr = otsu_thr' /\ run.raw = raw_masks'
        /\ run.err = err'}

\* C15 (the claim as stated): frames are processed independently: with frame j
\* replaced by any other grid of its shape, the same installation produces for
\* every other frame i the water mask and the water level it produced in this
\* run.
C15_FramesIndependent ==
    [][(DetectionStep /\ SameShape /\ pc' = "done") =>
        \A uniq \in UniqueModes, onef \in OneColourModes :
            Execute(ndwi, nominal_water, uniq, onef) \in RunsOfStep =>
                \A j \in 1..Len(ndwi) : \A g \in GridsOf(ShapeOf(ndwi[j]), NdwiValues) :
                    \E other \in {Execute([ndwi EXCEPT ![j] = g], nominal_water,
                                           uniq, onef)} :
                        \A i \in (1..Len(ndwi)) \ {j} :
                            /\ other.err = ""
                            /\ other.masks[i] = water_mask'[i]
                            /\ other.levels[i] = water_level'[i]
    ]_vars

\* C19 (the claim as stated): with a nominal extent that has a set pixel,
\* every water level written to WATER_LEVEL lies in [0, 1]: the masked water
\* pixels of a frame are never more than the nominal pixels.
C19_LevelInUnitInterval ==
    (pc = "done" /\ CountNonzero(nominal_water) > 0) =>
        \A k \in 1..Len(water_level) :
            /\ water_level[k][2] = CountNonzero(nominal_water)
            /\ 0 <= water_level[k][1]
            /\ water_level[k][1] <= water_level[k][2]

\* C20 (the claim as stated): for a frame with more than one distinct value
\* (nan counted as one value, as the test that selects the Otsu branch counts
\* it) the classification is not degenerate: in the grid the threshold is
\* taken from, the pixels holding the maximum are water and those holding the
\* minimum are not, so the mask returned by detect_water is neither all-true
\* nor all-false.
C20_OtsuNotDegenerate ==
    [][(DetectionStep /\ SameShape /\ pc' = "done") =>
        \A i \in 1..Len(raw_masks') :
            Cardinality(DistinctValues(ndwi[i])) > 1 =>
                LET grid == Filled(ndwi[i])
                IN  /\ \E p \in DOMAIN grid : raw_masks'[i][p] = 1
                    /\ \E p \in DOMAIN grid : raw_masks'[i][p] = 0
                    /\ \A p \in DOMAIN grid :
                          /\ grid[p] = SetMax(DistinctValues(grid))
                                => raw_masks'[i][p] = 1
                          /\ grid[p] = SetMin(DistinctValues(grid))
                                => raw_masks'[i][p] = 0
    ]_vars

(***************************************************************************)
(* Properties of the index calculator.                                     *)
(***************************************************************************)
\* A step of calculate_ndwi.
NdwiStep == pc = "calculate_ndwi" /\ pc' = "add_valid_mask"

\* C16: calculate_ndwi does not raise; every NDWI value it produces lies in
\* [-1, 1], except at the pixels whose bands add up to 0, which hold nan.
C16_NdwiInRange ==
    [][NdwiStep =>
        /\ err' = "" /\ "NDWI" \in features'
        /\ Len(ndwi') = Len(bands)
        /\ \A i \in 1..Len(bands) :
              /\ DOMAIN ndwi'[i] = DOMAIN bands[i]
              /\ \A p \in DOMAIN bands[i] :
                    IF bands[i][p][1] + bands[i][p][2] = 0
                    THEN ndwi'[i][p] = NaN
                    ELSE -2 <= ndwi'[i][p] /\ ndwi'[i][p] <= 2
    ]_vars

\* C16 witness: calculate_ndwi has run on a frame with a pixel without signal
\* (nan) next to a pixel of NDWI -1 (no green reflectance), and on a frame
\* holding 1.0 and 0.5.
C16_Witness ==
    /\ pc = "add_valid_mask" /\ Len(ndwi) = 2
    /\ bands[1] = (<<1, 1>> :> <<0, 0>> @@ <<1, 2>> :> <<0, 1>>)
    /\ ndwi[1] = (<<1, 1>> :> NaN @@ <<1, 2>> :> -2)
    /\ bands[2] = (<<1, 1>> :> <<1, 0>> @@ <<1, 2>> :> <<3, 1>>)
    /\ ndwi[2] = (<<1, 1>> :> 2 @@ <<1, 2>> :> 1)

OsmStep == pc = "osm_task" /\ pc' # pc

\* C17 (the claim as stated): ways are treated as polygons only when
\* polygonize is true: with polygonize false every stored geometry is the
\* returned one, not converted to a polygon and only clipped to the bounding
\* box; with polygonize true it is converted to a polygon.
C17_PolygonOnlyIfPolygonize ==
    [][(OsmStep /\ pc' = "osm_done") =>
        /\ Len(osm_feature') = Len(overpass)
        /\ \A i \in 1..Len(overpass) :
              /\ osm_feature'[i].clipped
              /\ polygonize => osm_feature'[i].kind = "Polygon"
              /\ ~polygonize => osm_feature'[i].kind = overpass[i].kind
    ]_vars

\* C21: execute on a patch without a bounding box raises ValueError before
\* any request is sent to the Overpass endpoint, whatever the endpoint would
\* have returned, and leaves the patch as it was: the target feature is not
\* written and no other feature changes.
C21_NoBboxRaisesBeforeRequest ==
    [][(OsmStep /\ ~bbox) =>
        /\ err' = "ValueError"
        /\ pc' = "osm_failed"
        /\ requests' = requests
        /\ osm_feature' = osm_feature
        /\ features' = features
        /\ "residential" \notin features'
        /\ bbox' = bbox
        /\ workflow_vars' = workflow_vars
    ]_vars

\* execute has failed on a patch without a bounding box although the endpoint
\* had well-formed features to return: nothing was requested, nothing stored.
C21_Witness ==
    /\ pc = "osm_failed"
    /\ ~bbox
    /\ err = "ValueError"
    /\ requests = 0
    /\ Len(overpass) > 0
    /\ \A i \in 1..Len(overpass) : ~PolygonRaises(overpass[i])
    /\ osm_feature = <<>>
    /\ "residential" \notin features

====
